---- MODULE Spec2Model ----
(***************************************************************************)
(* Chaincode packages of core/common/ccprovider: the unsigned CDSPackage   *)
(* and the signed SignedCDSPackage, their digest records, validation       *)
(* against a ChaincodeData and installation to the chaincode install path. *)
(*                                                                         *)
(* Byte strings are sequences of small naturals.  A Go value that may be   *)
(* nil and whose nil-ness the code tests is a record with a field "nil".   *)
(***************************************************************************)
EXTENDS Integers, Sequences, FiniteSets, TLC

VARIABLES
    pkg,      \* pkg[p]: the fields of package value p (both struct types)
    store,    \* store[path]: the file at chaincodeInstallPath/path, if any
    pc,       \* pc[p]: where p's PutChaincodeToFS call stands
    last,     \* the most recent call: operation, receiver, arguments, results
    issued,   \* issued[p]: ChaincodeData p's last successful InitFromBuffer returned
    lastInit, \* lastInit[p]: "ok" after a successful Init*, "refailed" once one has
              \* failed on p after a success, "none" before any success
    okPuts,   \* the path and bytes of every PutChaincodeToFS that returned nil, in order
    intent,   \* intent[path]: bytes most recently handed to ioutil.WriteFile
    scen,     \* the number of the scenario whose inputs this run's callers draw from
    dIn,      \* digest study: an endorser list and an ordering of it
    dOut      \* digest study: getCDSData's results for the list and for its reordering

vars == <<pkg, store, pc, last, issued, lastInit, okPuts, intent, scen, dIn, dOut>>

----------------------------------------------------------------------------
(* Bounds of the model *)

\* longest prefix a failed ioutil.WriteFile is taken to leave behind
MaxPartial == 1
\* endorsers per signed spec in the digest study
MaxEndorsers == 2
\* longest endorser identity in the digest study
MaxEndorserLen == 2

----------------------------------------------------------------------------
(* Protocol-buffer wire format, as proto.Marshal / proto.Unmarshal use it. *)
(* Within the bounds every varint (tag, length, value) fits one byte.      *)

\* wire type of an int32 field (ChannelHeader.Type)
WireVarint == 0
\* wire type of a bytes, string or embedded-message field
WireBytes == 2

Tag(num, wt) == num * 8 + wt

\* a length-delimited field, always written
LenField(num, b) == <<Tag(num, WireBytes), Len(b)>> \o b

\* proto3 scalar bytes/string field: the zero value is not written
BytesField(num, b) == IF b = <<>> THEN <<>> ELSE LenField(num, b)

\* proto3 varint field: the zero value is not written
VarintField(num, v) == IF v = 0 THEN <<>> ELSE <<Tag(num, WireVarint), v>>

Drop(b, n) == SubSeq(b, n + 1, Len(b))

Take(b, n) == SubSeq(b, 1, n)

BadParse == [ok |-> FALSE, fs |-> <<>>]

\* the first field of a non-empty encoding: number, wire type, raw value, and
\* the count n of bytes it takes
FirstField(b) ==
    LET tag == Head(b)
        num == tag \div 8
        wt == tag % 8
        rest == Tail(b)
        Bad == [ok |-> FALSE, f |-> [num |-> 0, wt |-> 0, val |-> <<>>], n |-> 0]
        Field(val, n) == [ok |-> TRUE, f |-> [num |-> num, wt |-> wt, val |-> val], n |-> n]
    IN  IF tag >= 128 \/ num = 0 THEN Bad
        ELSE IF wt = WireVarint
        THEN IF rest = <<>> \/ Head(rest) >= 128 THEN Bad ELSE Field(<<Head(rest)>>, 2)
        ELSE IF wt = WireBytes
        THEN IF rest = <<>> \/ Head(rest) >= 128 \/ Len(rest) - 1 < Head(rest) THEN Bad
             ELSE Field(SubSeq(rest, 2, 1 + Head(rest)), 2 + Head(rest))
        ELSE IF wt = 1   \* fixed 64-bit value
        THEN IF Len(rest) < 8 THEN Bad ELSE Field(Take(rest, 8), 9)
        ELSE IF wt = 5   \* fixed 32-bit value
        THEN IF Len(rest) < 4 THEN Bad ELSE Field(Take(rest, 4), 5)
        ELSE Bad

Prepend(f, r) == IF r.ok THEN [ok |-> TRUE, fs |-> <<f>> \o r.fs] ELSE BadParse

\* the field sequence of an encoded message
RECURSIVE ParseFields(_)
RECURSIVE ParseRest(_, _)
ParseFields(b) ==
    IF b = <<>> THEN [ok |-> TRUE, fs |-> <<>>] ELSE ParseRest(b, FirstField(b))

ParseRest(b, first) ==
    IF ~first.ok THEN BadParse ELSE Prepend(first.f, ParseFields(Drop(b, first.n)))

\* the values of field num, in wire order
RECURSIVE FieldVals(_, _)
FieldVals(fs, num) ==
    IF fs = <<>> THEN <<>>
    ELSE (IF Head(fs).num = num THEN <<Head(fs).val>> ELSE <<>>) \o FieldVals(Tail(fs), num)

\* a known field met with another wire type than its own is an error
WrongWire(fs, known, wt) == \E i \in 1..Len(fs) : fs[i].num \in known /\ fs[i].wt # wt

Has(fs, num) == \E i \in 1..Len(fs) : fs[i].num = num

LastOf(vals) == IF vals = <<>> THEN <<>> ELSE vals[Len(vals)]

\* scalar field: the last occurrence wins; absent reads as empty
LastVal(fs, num) == LastOf(FieldVals(fs, num))

\* embedded message field: the occurrences merge, as their concatenation decodes
RECURSIVE Flatten(_)
Flatten(ss) == IF ss = <<>> THEN <<>> ELSE Head(ss) \o Flatten(Tail(ss))

MergedVal(fs, num) == Flatten(FieldVals(fs, num))

----------------------------------------------------------------------------
(* Go values *)

\* a nil []byte whose nil-ness the code tests, and a non-nil one
NilBytes == [nil |-> TRUE, b |-> <<>>]

Bytes(b) == [nil |-> FALSE, b |-> b]

\* *pb.ChaincodeID
NilChaincodeID == [nil |-> TRUE, Name |-> <<>>, Version |-> <<>>]

ChaincodeID(n, v) == [nil |-> FALSE, Name |-> n, Version |-> v]

\* *pb.ChaincodeSpec
NilChaincodeSpec == [nil |-> TRUE, ChaincodeId |-> NilChaincodeID]

ChaincodeSpec(cid) == [nil |-> FALSE, ChaincodeId |-> cid]

\* *pb.ChaincodeDeploymentSpec
NilDepSpec == [nil |-> TRUE, ChaincodeSpec |-> NilChaincodeSpec, CodePackage |-> <<>>]

DepSpec(cs, code) == [nil |-> FALSE, ChaincodeSpec |-> cs, CodePackage |-> code]

\* *pb.SignedChaincodeDeploymentSpec
NilSDepSpec ==
    [nil |-> TRUE, ChaincodeDeploymentSpec |-> NilBytes,
     InstantiationPolicy |-> NilBytes, OwnerEndorsements |-> <<>>]

SDepSpec(cdsBytes, policy, endorsements) ==
    [nil |-> FALSE, ChaincodeDeploymentSpec |-> cdsBytes,
     InstantiationPolicy |-> policy, OwnerEndorsements |-> endorsements]

\* *pb.Endorsement
Endorsement(e, sig) == [Endorser |-> e, Signature |-> sig]

\* *common.Envelope
NilEnvelope == [nil |-> TRUE, Payload |-> <<>>, Signature |-> <<>>]

Envelope(payload, sig) == [nil |-> FALSE, Payload |-> payload, Signature |-> sig]

\* *CDSData and *SignedCDSData; CDSData has no SignatureHash
NilData == [nil |-> TRUE, CodeHash |-> <<>>, MetaDataHash |-> <<>>, SignatureHash |-> <<>>]

CDSData(c, m) == [nil |-> FALSE, CodeHash |-> c, MetaDataHash |-> m, SignatureHash |-> <<>>]

SignedCDSData(c, m, s) == [nil |-> FALSE, CodeHash |-> c, MetaDataHash |-> m, SignatureHash |-> s]

\* *ChaincodeData
NilChaincodeData == [nil |-> TRUE, Name |-> <<>>, Version |-> <<>>, Data |-> <<>>]

ChaincodeData(n, v, d) == [nil |-> FALSE, Name |-> n, Version |-> v, Data |-> d]

----------------------------------------------------------------------------
(* Messages of protos/peer and protos/common on the wire *)

MarshalChaincodeID(cid) == BytesField(2, cid.Name) \o BytesField(3, cid.Version)

MarshalChaincodeSpec(cs) ==
    IF cs.ChaincodeId.nil THEN <<>> ELSE LenField(2, MarshalChaincodeID(cs.ChaincodeId))

MarshalDepSpec(cds) ==
    (IF cds.ChaincodeSpec.nil THEN <<>>
     ELSE LenField(1, MarshalChaincodeSpec(cds.ChaincodeSpec)))
    \o BytesField(3, cds.CodePackage)

MarshalEndorsement(e) == BytesField(1, e.Endorser) \o BytesField(2, e.Signature)

RECURSIVE MarshalEndorsements(_)
MarshalEndorsements(es) ==
    IF es = <<>> THEN <<>>
    ELSE LenField(3, MarshalEndorsement(Head(es))) \o MarshalEndorsements(Tail(es))

\* A sender's encoding of a signed spec: a non-nil bytes field is written even
\* when empty (explicit presence on the wire), a nil one is left out.
OptField(num, ob) == IF ob.nil THEN <<>> ELSE LenField(num, ob.b)

MarshalSDepSpec(sds) ==
    OptField(1, sds.ChaincodeDeploymentSpec)
    \o OptField(2, sds.InstantiationPolicy)
    \o MarshalEndorsements(sds.OwnerEndorsements)

\* proto.Unmarshal is ParseFields followed by the message's own reading of the
\* fields (the ...Of operators).

ChaincodeIDOf(r) ==
    IF ~r.ok \/ WrongWire(r.fs, {1, 2, 3}, WireBytes)
    THEN [ok |-> FALSE, v |-> NilChaincodeID]
    ELSE [ok |-> TRUE, v |-> ChaincodeID(LastVal(r.fs, 2), LastVal(r.fs, 3))]

UnmarshalChaincodeID(b) == ChaincodeIDOf(ParseFields(b))

ChaincodeSpecWith(cid) ==
    IF ~cid.ok THEN [ok |-> FALSE, v |-> NilChaincodeSpec]
    ELSE [ok |-> TRUE, v |-> ChaincodeSpec(cid.v)]

\* type (1) and timeout (4) are varints, input (3) a message this package never reads
ChaincodeSpecOf(r) ==
    IF ~r.ok \/ WrongWire(r.fs, {2, 3}, WireBytes) \/ WrongWire(r.fs, {1, 4}, WireVarint)
    THEN [ok |-> FALSE, v |-> NilChaincodeSpec]
    ELSE IF ~ParseFields(MergedVal(r.fs, 3)).ok THEN [ok |-> FALSE, v |-> NilChaincodeSpec]
    ELSE IF ~Has(r.fs, 2) THEN [ok |-> TRUE, v |-> ChaincodeSpec(NilChaincodeID)]
    ELSE ChaincodeSpecWith(UnmarshalChaincodeID(MergedVal(r.fs, 2)))

UnmarshalChaincodeSpec(b) == ChaincodeSpecOf(ParseFields(b))

DepSpecWith(cs, code) ==
    IF ~cs.ok THEN [ok |-> FALSE, v |-> NilDepSpec]
    ELSE [ok |-> TRUE, v |-> DepSpec(cs.v, code)]

\* effective_date (2) is a message, exec_env (4) a varint; neither is read here
DepSpecOf(r) ==
    IF ~r.ok \/ WrongWire(r.fs, {1, 2, 3}, WireBytes) \/ WrongWire(r.fs, {4}, WireVarint)
    THEN [ok |-> FALSE, v |-> NilDepSpec]
    ELSE IF ~ParseFields(MergedVal(r.fs, 2)).ok THEN [ok |-> FALSE, v |-> NilDepSpec]
    ELSE IF ~Has(r.fs, 1)
    THEN [ok |-> TRUE, v |-> DepSpec(NilChaincodeSpec, LastVal(r.fs, 3))]
    ELSE DepSpecWith(UnmarshalChaincodeSpec(MergedVal(r.fs, 1)), LastVal(r.fs, 3))

UnmarshalDepSpec(b) == DepSpecOf(ParseFields(b))

EndorsementOf(r) ==
    IF ~r.ok \/ WrongWire(r.fs, {1, 2}, WireBytes)
    THEN [ok |-> FALSE, v |-> Endorsement(<<>>, <<>>)]
    ELSE [ok |-> TRUE, v |-> Endorsement(LastVal(r.fs, 1), LastVal(r.fs, 2))]

UnmarshalEndorsement(b) == EndorsementOf(ParseFields(b))

\* a bytes field met on the wire decodes to a non-nil slice, even when empty
OptBytes(fs, num) == IF Has(fs, num) THEN Bytes(LastVal(fs, num)) ELSE NilBytes

SDepSpecWith(cdsBytes, policy, es) ==
    IF \E i \in 1..Len(es) : ~es[i].ok THEN [ok |-> FALSE, v |-> NilSDepSpec]
    ELSE [ok |-> TRUE, v |-> SDepSpec(cdsBytes, policy, [i \in 1..Len(es) |-> es[i].v])]

EndorsementsOf(vals) == [i \in 1..Len(vals) |-> UnmarshalEndorsement(vals[i])]

SDepSpecOf(r) ==
    IF ~r.ok \/ WrongWire(r.fs, {1, 2, 3}, WireBytes)
    THEN [ok |-> FALSE, v |-> NilSDepSpec]
    ELSE SDepSpecWith(OptBytes(r.fs, 1), OptBytes(r.fs, 2),
                      EndorsementsOf(FieldVals(r.fs, 3)))

UnmarshalSDepSpec(b) == SDepSpecOf(ParseFields(b))

EnvelopeOf(r) ==
    IF ~r.ok \/ WrongWire(r.fs, {1, 2}, WireBytes)
    THEN [ok |-> FALSE, v |-> NilEnvelope]
    ELSE [ok |-> TRUE, v |-> Envelope(LastVal(r.fs, 1), LastVal(r.fs, 2))]

UnmarshalEnvelope(b) == EnvelopeOf(ParseFields(b))

\* common.HeaderType_CHAINCODE_PACKAGE
HeaderType_CHAINCODE_PACKAGE == 6

\* an Envelope whose Payload carries a ChannelHeader of type typ and sds as data
MarshalEnvelope(typ, sds) ==
    LET chdr == VarintField(1, typ)
        hdr == BytesField(1, chdr)
        payload == LenField(1, hdr) \o BytesField(2, MarshalSDepSpec(sds))
    IN  LenField(1, payload)

NoSignedCCDepSpec == [ok |-> FALSE, Type |-> 0, sDepSpec |-> NilSDepSpec]

\* common.ChannelHeader: type (1) is a varint
ChannelHeaderTypeOf(chdr) ==
    IF ~chdr.ok \/ WrongWire(chdr.fs, {1}, WireVarint) THEN [ok |-> FALSE, Type |-> 0]
    ELSE IF ~Has(chdr.fs, 1) THEN [ok |-> TRUE, Type |-> 0]
    ELSE [ok |-> TRUE, Type |-> LastVal(chdr.fs, 1)[1]]

\* common.Header: channel_header (1) and signature_header (2) are bytes
HeaderTypeOf(hdr) ==
    IF ~hdr.ok \/ WrongWire(hdr.fs, {1, 2}, WireBytes) THEN [ok |-> FALSE, Type |-> 0]
    ELSE ChannelHeaderTypeOf(ParseFields(LastVal(hdr.fs, 1)))

SignedCCDepSpecWith(typ, sp) ==
    IF ~typ.ok \/ ~sp.ok THEN NoSignedCCDepSpec
    ELSE [ok |-> TRUE, Type |-> typ.Type, sDepSpec |-> sp.v]

\* common.Payload: header (1) is a message, data (2) bytes
SignedCCDepSpecOf(p) ==
    IF ~p.ok \/ WrongWire(p.fs, {1, 2}, WireBytes) \/ ~Has(p.fs, 1) THEN NoSignedCCDepSpec
    ELSE SignedCCDepSpecWith(HeaderTypeOf(ParseFields(MergedVal(p.fs, 1))),
                             UnmarshalSDepSpec(LastVal(p.fs, 2)))

\* ccpackage.ExtractSignedCCDepSpec: the channel header and the signed spec
\* inside env; fails unless env is a well-formed signed-package envelope
ExtractSignedCCDepSpec(env) == SignedCCDepSpecOf(ParseFields(env.Payload))

----------------------------------------------------------------------------
(* The hash provider: a hash.Hash holds the bytes written since the last   *)
(* Reset.  The digest function is taken to be injective: H(s) carries s     *)
(* behind a marker byte that no input byte equals.                          *)

HashMark == 127

H(s) == <<HashMark>> \o s

NewHash == <<>>

\* hash.Write(b)
HashWrite(hash, b) == hash \o b

\* hash.Sum(b): appends the digest of what was written to b
HashSum(hash, b) == b \o H(hash)

\* hash.Reset()
HashReset(hash) == <<>>

----------------------------------------------------------------------------
(* Digest records *)

\* proto.Marshal of a *CDSData (proto3 tags: an empty field is not written)
MarshalCDSData(data) == BytesField(1, data.CodeHash) \o BytesField(2, data.MetaDataHash)

\* proto.Marshal of a *SignedCDSData (no proto3 tag: a non-nil field is written)
MarshalSignedCDSData(data) ==
    LenField(1, data.CodeHash) \o LenField(2, data.MetaDataHash)
    \o LenField(3, data.SignatureHash)

\* proto.Unmarshal into a *CDSData: fields 1 and 2; any other field is skipped
CDSDataOf(r) ==
    IF ~r.ok \/ WrongWire(r.fs, {1, 2}, WireBytes)
    THEN [ok |-> FALSE, v |-> NilData]
    ELSE [ok |-> TRUE, v |-> CDSData(LastVal(r.fs, 1), LastVal(r.fs, 2))]

UnmarshalCDSData(b) == CDSDataOf(ParseFields(b))

\* proto.Unmarshal into a *SignedCDSData: fields 1, 2 and 3
SignedCDSDataOf(r) ==
    IF ~r.ok \/ WrongWire(r.fs, {1, 2, 3}, WireBytes)
    THEN [ok |-> FALSE, v |-> NilData]
    ELSE [ok |-> TRUE,
          v |-> SignedCDSData(LastVal(r.fs, 1), LastVal(r.fs, 2), LastVal(r.fs, 3))]

UnmarshalSignedCDSData(b) == SignedCDSDataOf(ParseFields(b))

\* (*CDSData).Equals
CDSData_Equals(data, other) ==
    /\ ~other.nil
    /\ data.CodeHash = other.CodeHash
    /\ data.MetaDataHash = other.MetaDataHash

\* an Equals that leaves the signature hash out of the comparison
SignedCDSData_EqualsUnsigned(data, other) ==
    /\ ~other.nil
    /\ data.CodeHash = other.CodeHash
    /\ data.MetaDataHash = other.MetaDataHash

\* (*SignedCDSData).Equals
SignedCDSData_Equals(data, other) ==
    /\ ~other.nil
    /\ data.CodeHash = other.CodeHash
    /\ data.MetaDataHash = other.MetaDataHash
    /\ data.SignatureHash = other.SignatureHash

----------------------------------------------------------------------------
(* Results.  err is "ok" for a nil error, "Panic" when the call panics,    *)
(* else the kind of the error returned.                                     *)

OK == "ok"

\* a nil pointer is dereferenced on reading the identity of a spec that has
\* no ChaincodeSpec or no ChaincodeId
NoIdentity(cds) == cds.ChaincodeSpec.nil \/ cds.ChaincodeSpec.ChaincodeId.nil

NoDigest(e) == [err |-> e, b |-> <<>>, data |-> NilData]

\* a code hash that takes in no code
CodeHashOfNothing(cds) == HashSum(NewHash, <<>>)

\* the code hash: hash.Sum(cds.CodePackage) on the fresh hash
CodeHashOf(cds) == HashSum(NewHash, cds.CodePackage)

\* the metadata hash: Reset, Write(Name), Write(Version), Sum(nil)
MetaDataHashOf(cds) ==
    HashSum(HashWrite(HashWrite(HashReset(NewHash), cds.ChaincodeSpec.ChaincodeId.Name),
                      cds.ChaincodeSpec.ChaincodeId.Version),
            <<>>)

CDSDigest(cdsdata) == [err |-> OK, b |-> MarshalCDSData(cdsdata), data |-> cdsdata]

\* (*CDSPackage).getCDSData; hashOK: the BCCSP factory and GetHash succeed
CDSPackage_getCDSData(cds, hashOK) ==
    IF cds.nil THEN NoDigest("Panic")
    ELSE IF ~hashOK THEN NoDigest("HashProviderError")
    ELSE IF NoIdentity(cds) THEN NoDigest("Panic")
    ELSE CDSDigest(CDSData(CodeHashOf(cds), MetaDataHashOf(cds)))

\* for _, o := range scds.OwnerEndorsements { hash.Write(o.Endorser) }
RECURSIVE WriteEndorsers(_, _)
WriteEndorsers(hash, es) ==
    IF es = <<>> THEN hash
    ELSE WriteEndorsers(HashWrite(hash, Head(es).Endorser), Tail(es))

\* a signature hash that takes in the policy alone
SignatureHashOfPolicy(scds) ==
    HashSum(HashWrite(HashReset(NewHash), scds.InstantiationPolicy.b), <<>>)

\* the signature hash: Reset, Write(InstantiationPolicy), the endorsers, Sum(nil)
SignatureHashOf(scds) ==
    HashSum(WriteEndorsers(HashWrite(HashReset(NewHash), scds.InstantiationPolicy.b),
                           scds.OwnerEndorsements),
            <<>>)

SignedCDSDigest(scdsdata) ==
    [err |-> OK, b |-> MarshalSignedCDSData(scdsdata), data |-> scdsdata]

\* (*SignedCDSPackage).getCDSData once scds.ChaincodeDeploymentSpec is unmarshalled
SignedCDSPackage_digest(scds, dec, hashOK) ==
    IF ~dec.ok THEN NoDigest("DecodeError")
    ELSE IF ~hashOK THEN NoDigest("HashProviderError")
    ELSE IF NoIdentity(dec.v) THEN NoDigest("Panic")
    ELSE IF scds.InstantiationPolicy.nil THEN NoDigest("PolicyMissing")
    ELSE SignedCDSDigest(SignedCDSData(CodeHashOf(dec.v), MetaDataHashOf(dec.v),
                                       SignatureHashOf(scds)))

\* (*SignedCDSPackage).getCDSData
SignedCDSPackage_getCDSData(scds, hashOK) ==
    IF scds.nil THEN NoDigest("Panic")
    ELSE SignedCDSPackage_digest(scds, UnmarshalDepSpec(scds.ChaincodeDeploymentSpec.b),
                                 hashOK)

----------------------------------------------------------------------------
(* Package values.  A CDSPackage has buf, depSpec and data; a              *)
(* SignedCDSPackage also sDepSpec and env (nil throughout in a CDSPackage). *)

EmptyPkg ==
    [buf |-> NilBytes, depSpec |-> NilDepSpec, sDepSpec |-> NilSDepSpec,
     env |-> NilEnvelope, data |-> NilData]

\* chaincodeInstallPath/ccname.ccversion, relative to chaincodeInstallPath
Dot == 46

Path(ccname, ccversion) == ccname \o <<Dot>> \o ccversion

\* GetChaincodePackage: the bytes of the file for ccname and ccversion
GetChaincodePackage(fs, ccname, ccversion) ==
    IF Path(ccname, ccversion) \in DOMAIN fs
    THEN [ok |-> TRUE, buf |-> Bytes(fs[Path(ccname, ccversion)])]
    ELSE [ok |-> FALSE, buf |-> NilBytes]

\* GetDepSpec, both types
GetDepSpec(ccpack) == ccpack.depSpec

InitFailed(ccpack, e) == [err |-> e, ccpack |-> ccpack, ccd |-> NilChaincodeData]

\* a ChaincodeData with the name and the version in each other's place
ChaincodeDataSwapped(depSpec, databytes) ==
    ChaincodeData(depSpec.ChaincodeSpec.ChaincodeId.Version,
                  depSpec.ChaincodeSpec.ChaincodeId.Name, databytes)

\* the ChaincodeData InitFromBuffer returns
ChaincodeDataOf(depSpec, databytes) ==
    ChaincodeData(depSpec.ChaincodeSpec.ChaincodeId.Name,
                  depSpec.ChaincodeSpec.ChaincodeId.Version, databytes)

\* "incase ccpack is reused", as (*SignedCDSPackage).InitFromBuffer clears
SignedCDSPackage_reset(ccpack) ==
    [ccpack EXCEPT !.buf = NilBytes, !.sDepSpec = NilSDepSpec, !.depSpec = NilDepSpec,
                   !.env = NilEnvelope, !.data = NilData]

\* (*SignedCDSPackage).InitFromBuffer from getCDSData on
SignedCDSPackage_setFields(ccpack, buf, env, sDepSpec, depSpec, cds) ==
    IF cds.err # OK THEN InitFailed(ccpack, cds.err)
    ELSE [err |-> OK,
          ccpack |-> [buf |-> buf, sDepSpec |-> sDepSpec, depSpec |-> depSpec,
                      env |-> env, data |-> cds.data],
          ccd |-> ChaincodeDataOf(depSpec, cds.b)]

\* (*SignedCDSPackage).InitFromBuffer from the envelope type check on
SignedCDSPackage_fromExtracted(ccpack, buf, env, ex, depSpec, hashOK) ==
    IF ~ex.ok THEN InitFailed(ccpack, "ExtractionError")
    ELSE IF ex.Type # HeaderType_CHAINCODE_PACKAGE
    THEN InitFailed(ccpack, "WrongEnvelopeType")
    ELSE IF ~depSpec.ok THEN InitFailed(ccpack, "DecodeError")
    ELSE SignedCDSPackage_setFields(ccpack, buf, env, ex.sDepSpec, depSpec.v,
                                    SignedCDSPackage_getCDSData(ex.sDepSpec, hashOK))

\* (*SignedCDSPackage).InitFromBuffer from ExtractSignedCCDepSpec on
SignedCDSPackage_fromEnvelope(ccpack, buf, env, ex, hashOK) ==
    SignedCDSPackage_fromExtracted(
        ccpack, buf, env, ex,
        UnmarshalDepSpec(ex.sDepSpec.ChaincodeDeploymentSpec.b), hashOK)

\* (*SignedCDSPackage).InitFromBuffer once the fields are cleared
SignedCDSPackage_fromBuffer(ccpack, buf, env, hashOK) ==
    IF ~env.ok THEN InitFailed(ccpack, "DecodeError")
    ELSE SignedCDSPackage_fromEnvelope(ccpack, buf, env.v,
                                       ExtractSignedCCDepSpec(env.v), hashOK)

\* (*SignedCDSPackage).InitFromBuffer
SignedCDSPackage_InitFromBuffer(ccpack, buf, hashOK) ==
    SignedCDSPackage_fromBuffer(SignedCDSPackage_reset(ccpack), buf,
                                UnmarshalEnvelope(buf.b), hashOK)

\* a reset that clears nothing
CDSPackage_keep(ccpack) == ccpack

\* "incase ccpack is reused", as both Init* of CDSPackage clear
CDSPackage_reset(ccpack) ==
    [ccpack EXCEPT !.buf = NilBytes, !.depSpec = NilDepSpec, !.data = NilData]

\* (*CDSPackage).InitFromBuffer from getCDSData on
CDSPackage_setFields(ccpack, buf, depSpec, cds) ==
    IF cds.err # OK THEN InitFailed(ccpack, cds.err)
    ELSE [err |-> OK,
          ccpack |-> [ccpack EXCEPT !.buf = buf, !.depSpec = depSpec, !.data = cds.data],
          ccd |-> ChaincodeDataOf(depSpec, cds.b)]

\* (*CDSPackage).InitFromBuffer once the fields are cleared
CDSPackage_fromBuffer(ccpack, buf, depSpec, hashOK) ==
    IF ~depSpec.ok THEN InitFailed(ccpack, "DecodeError")
    ELSE CDSPackage_setFields(ccpack, buf, depSpec.v,
                              CDSPackage_getCDSData(depSpec.v, hashOK))

\* (*CDSPackage).InitFromBuffer
CDSPackage_InitFromBuffer(ccpack, buf, hashOK) ==
    CDSPackage_fromBuffer(CDSPackage_reset(ccpack), buf, UnmarshalDepSpec(buf.b), hashOK)

FSFailed(ccpack, e) ==
    [err |-> e, ccpack |-> ccpack, buf |-> NilBytes, depSpec |-> NilDepSpec]

\* "incase ccpack is reused", as (*SignedCDSPackage).InitFromFS clears
SignedCDSPackage_resetFS(ccpack) ==
    [ccpack EXCEPT !.buf = NilBytes, !.sDepSpec = NilSDepSpec, !.depSpec = NilDepSpec,
                   !.env = NilEnvelope]

\* (*SignedCDSPackage).InitFromFS after its InitFromBuffer call
SignedCDSPackage_returnFS(init) ==
    IF init.err # OK THEN FSFailed(init.ccpack, init.err)
    ELSE [err |-> OK, ccpack |-> init.ccpack, buf |-> init.ccpack.buf,
          depSpec |-> init.ccpack.depSpec]

\* (*SignedCDSPackage).InitFromFS after GetChaincodePackage
SignedCDSPackage_fromFS(ccpack, got, hashOK) ==
    IF ~got.ok THEN FSFailed(ccpack, "NotFound")
    ELSE SignedCDSPackage_returnFS(SignedCDSPackage_InitFromBuffer(ccpack, got.buf, hashOK))

\* (*SignedCDSPackage).InitFromFS
SignedCDSPackage_InitFromFS(ccpack, fs, ccname, ccversion, hashOK) ==
    SignedCDSPackage_fromFS(SignedCDSPackage_resetFS(ccpack),
                            GetChaincodePackage(fs, ccname, ccversion), hashOK)

\* (*CDSPackage).InitFromFS from getCDSData on
CDSPackage_setFieldsFS(ccpack, buf, depSpec, cds) ==
    IF cds.err # OK THEN FSFailed(ccpack, cds.err)
    ELSE [err |-> OK,
          ccpack |-> [ccpack EXCEPT !.buf = buf, !.depSpec = depSpec, !.data = cds.data],
          buf |-> buf, depSpec |-> depSpec]

\* (*CDSPackage).InitFromFS from proto.Unmarshal on
CDSPackage_decodeFS(ccpack, buf, depSpec, hashOK) ==
    IF ~depSpec.ok THEN FSFailed(ccpack, "DecodeError")
    ELSE CDSPackage_setFieldsFS(ccpack, buf, depSpec.v,
                                CDSPackage_getCDSData(depSpec.v, hashOK))

\* (*CDSPackage).InitFromFS after GetChaincodePackage
CDSPackage_fromFS(ccpack, got, hashOK) ==
    IF ~got.ok THEN FSFailed(ccpack, "NotFound")
    ELSE CDSPackage_decodeFS(ccpack, got.buf, UnmarshalDepSpec(got.buf.b), hashOK)

\* (*CDSPackage).InitFromFS
CDSPackage_InitFromFS(ccpack, fs, ccname, ccversion, hashOK) ==
    CDSPackage_fromFS(CDSPackage_reset(ccpack),
                      GetChaincodePackage(fs, ccname, ccversion), hashOK)

NotValid(e) == [err |-> e, depSpec |-> NilDepSpec]

\* (*SignedCDSPackage).ValidateCC from proto.Unmarshal of ccdata.Data on
SignedCDSPackage_compare(ccpack, otherdata) ==
    IF ~otherdata.ok THEN NotValid("DecodeError")
    ELSE IF ccpack.data.nil THEN NotValid("Panic")
    ELSE IF ~SignedCDSData_Equals(ccpack.data, otherdata.v) THEN NotValid("DigestMismatch")
    ELSE [err |-> OK, depSpec |-> ccpack.depSpec]

\* (*SignedCDSPackage).ValidateCC
SignedCDSPackage_ValidateCC(ccpack, ccdata) ==
    IF ccpack.sDepSpec.nil THEN NotValid("Uninitialized")
    ELSE IF ccpack.sDepSpec.ChaincodeDeploymentSpec.nil THEN NotValid("Uninitialized")
    ELSE IF ccpack.depSpec.nil THEN NotValid("Uninitialized")
    ELSE IF NoIdentity(ccpack.depSpec) THEN NotValid("Panic")
    ELSE IF \/ ccdata.Name # ccpack.depSpec.ChaincodeSpec.ChaincodeId.Name
            \/ ccdata.Version # ccpack.depSpec.ChaincodeSpec.ChaincodeId.Version
    THEN NotValid("IdentityMismatch")
    ELSE SignedCDSPackage_compare(ccpack, UnmarshalSignedCDSData(ccdata.Data))

\* (*CDSPackage).ValidateCC from proto.Unmarshal of ccdata.Data on
CDSPackage_compare(ccpack, otherdata) ==
    IF ~otherdata.ok THEN NotValid("DecodeError")
    ELSE IF ~CDSData_Equals(ccpack.data, otherdata.v) THEN NotValid("DigestMismatch")
    ELSE [err |-> OK, depSpec |-> ccpack.depSpec]

\* a ValidateCC that decodes ccdata.Data before it compares the identities
CDSPackage_ValidateDecodeFirst(ccpack, ccdata) ==
    IF ccpack.depSpec.nil THEN NotValid("Uninitialized")
    ELSE IF ccpack.data.nil THEN NotValid("Uninitialized")
    ELSE IF NoIdentity(ccpack.depSpec) THEN NotValid("Panic")
    ELSE IF ~UnmarshalCDSData(ccdata.Data).ok THEN NotValid("DecodeError")
    ELSE IF \/ ccdata.Name # ccpack.depSpec.ChaincodeSpec.ChaincodeId.Name
            \/ ccdata.Version # ccpack.depSpec.ChaincodeSpec.ChaincodeId.Version
    THEN NotValid("IdentityMismatch")
    ELSE CDSPackage_compare(ccpack, UnmarshalCDSData(ccdata.Data))

\* (*CDSPackage).ValidateCC
CDSPackage_ValidateCC(ccpack, ccdata) ==
    IF ccpack.depSpec.nil THEN NotValid("Uninitialized")
    ELSE IF ccpack.data.nil THEN NotValid("Uninitialized")
    ELSE IF NoIdentity(ccpack.depSpec) THEN NotValid("Panic")
    ELSE IF \/ ccdata.Name # ccpack.depSpec.ChaincodeSpec.ChaincodeId.Name
            \/ ccdata.Version # ccpack.depSpec.ChaincodeSpec.ChaincodeId.Version
    THEN NotValid("IdentityMismatch")
    ELSE CDSPackage_compare(ccpack, UnmarshalCDSData(ccdata.Data))

\* the path a package's PutChaincodeToFS stats and writes
PutPath(ccpack) ==
    Path(ccpack.depSpec.ChaincodeSpec.ChaincodeId.Name,
         ccpack.depSpec.ChaincodeSpec.ChaincodeId.Version)

\* (*SignedCDSPackage).PutChaincodeToFS up to the os.Stat: the error returned,
\* or "ok" when the call goes on to ioutil.WriteFile
SignedCDSPackage_PutCheck(ccpack, fs) ==
    IF ccpack.buf.nil THEN "Uninitialized"
    ELSE IF ccpack.sDepSpec.nil \/ ccpack.depSpec.nil THEN "Uninitialized"
    ELSE IF ccpack.env.nil THEN "Uninitialized"
    ELSE IF ccpack.data.nil THEN "Uninitialized"
    ELSE IF NoIdentity(ccpack.depSpec) THEN "Panic"
    ELSE IF PutPath(ccpack) \in DOMAIN fs THEN "AlreadyExists"
    ELSE OK

\* a PutChaincodeToFS that does not test the package's fields
CDSPackage_PutUninitialized(ccpack, fs) ==
    IF PutPath(ccpack) \in DOMAIN fs THEN "AlreadyExists" ELSE OK

\* a PutChaincodeToFS that goes on to write whether or not the path exists
CDSPackage_PutUnchecked(ccpack, fs) ==
    IF ccpack.buf.nil THEN "Uninitialized"
    ELSE IF ccpack.depSpec.nil THEN "Uninitialized"
    ELSE IF ccpack.data.nil THEN "Uninitialized"
    ELSE IF NoIdentity(ccpack.depSpec) THEN "Panic"
    ELSE OK

\* (*CDSPackage).PutChaincodeToFS up to the os.Stat
CDSPackage_PutCheck(ccpack, fs) ==
    IF ccpack.buf.nil THEN "Uninitialized"
    ELSE IF ccpack.depSpec.nil THEN "Uninitialized"
    ELSE IF ccpack.data.nil THEN "Uninitialized"
    ELSE IF NoIdentity(ccpack.depSpec) THEN "Panic"
    ELSE IF PutPath(ccpack) \in DOMAIN fs THEN "AlreadyExists"
    ELSE OK

----------------------------------------------------------------------------
(* Package values in use and the inputs their callers supply *)

Unsigned == {"u1", "u2"}

Signed == {"s1", "s2"}

Pkgs == Unsigned \cup Signed

NameA == <<97, 98>>

NameB == <<99, 98>>

Version1 == <<49>>

Version2 == <<50>>

\* the deployment spec of the running example
BaseDepSpec == DepSpec(ChaincodeSpec(ChaincodeID(NameA, Version1)), <<1, 2>>)

\* what a signed package is built from: the envelope type, the encoded
\* deployment spec, the instantiation policy and the owner endorsements
SignedInput(typ, cdsBytes, policy, endorsers) ==
    [typ |-> typ, cdsBytes |-> cdsBytes, policy |-> policy,
     endorsements |-> [i \in 1..Len(endorsers) |-> Endorsement(endorsers[i], <<>>)]]

BaseSigned ==
    SignedInput(HeaderType_CHAINCODE_PACKAGE, MarshalDepSpec(BaseDepSpec),
                Bytes(<<7, 8>>), <<(<<5>>), (<<6>>)>>)

SignedBuf(x) ==
    MarshalEnvelope(x.typ, SDepSpec(Bytes(x.cdsBytes), x.policy, x.endorsements))

\* a byte string with the byte at position i changed
FlipByte(b, i) == [b EXCEPT ![i] = (b[i] + 64) % 128]

Flips(b) == {FlipByte(b, i) : i \in 1..Len(b)}

WithName(cds, n) == [cds EXCEPT !.ChaincodeSpec.ChaincodeId.Name = n]

WithVersion(cds, v) == [cds EXCEPT !.ChaincodeSpec.ChaincodeId.Version = v]

WithCode(cds, c) == [cds EXCEPT !.CodePackage = c]

\* the deployment specs one byte away from cds, by the field changed
TamperedDepSpecs(cds) ==
    {[field |-> "codePackage", cds |-> WithCode(cds, c)] : c \in Flips(cds.CodePackage)}
    \cup {[field |-> "name", cds |-> WithName(cds, n)] :
            n \in Flips(cds.ChaincodeSpec.ChaincodeId.Name)}
    \cup {[field |-> "version", cds |-> WithVersion(cds, v)] :
            v \in Flips(cds.ChaincodeSpec.ChaincodeId.Version)}

\* the identities named by the inputs, and one that is never installed
Identities == {<<NameA, Version1>>, <<NameB, Version1>>}

\* method dispatch on the package's type
DoInitFromBuffer(p, ccpack, buf, hashOK) ==
    IF p \in Signed THEN SignedCDSPackage_InitFromBuffer(ccpack, buf, hashOK)
    ELSE CDSPackage_InitFromBuffer(ccpack, buf, hashOK)

DoInitFromFS(p, ccpack, fs, ccname, ccversion, hashOK) ==
    IF p \in Signed THEN SignedCDSPackage_InitFromFS(ccpack, fs, ccname, ccversion, hashOK)
    ELSE CDSPackage_InitFromFS(ccpack, fs, ccname, ccversion, hashOK)

DoValidateCC(p, ccpack, ccdata) ==
    IF p \in Signed THEN SignedCDSPackage_ValidateCC(ccpack, ccdata)
    ELSE CDSPackage_ValidateCC(ccpack, ccdata)

DoPutCheck(p, ccpack, fs) ==
    IF p \in Signed THEN SignedCDSPackage_PutCheck(ccpack, fs)
    ELSE CDSPackage_PutCheck(ccpack, fs)

\* the ChaincodeData that the ledger holds for the packages built from bufs
Registered(bufs) ==
    {r.ccd : r \in {x \in {DoInitFromBuffer(p, EmptyPkg, Bytes(b), TRUE) :
                              p \in {"u1", "s1"}, b \in bufs} : x.err = OK}}

\* a digest record as its profile serializes it
MarshalData(d) ==
    IF d.SignatureHash = <<>> THEN MarshalCDSData(d) ELSE MarshalSignedCDSData(d)

\* what a caller may hand to ValidateCC in place of a registered record c with
\* digest record d: c itself, c under another name or version, c with
\* undecodable data, and c with exactly one hash of its record changed
OfferedWith(c, d, cut) ==
    {c, [c EXCEPT !.Name = NameB], [c EXCEPT !.Version = Version2],
     [c EXCEPT !.Data = cut], [c EXCEPT !.Version = Version2, !.Data = cut],
     [c EXCEPT !.Data = MarshalData([d EXCEPT !.CodeHash = H(<<0>>)])],
     [c EXCEPT !.Data = MarshalData([d EXCEPT !.MetaDataHash = H(<<0>>)])],
     [c EXCEPT !.Data = MarshalData([d EXCEPT !.SignatureHash = H(<<0>>)])]}

Offered(c) ==
    OfferedWith(c, UnmarshalSignedCDSData(c.Data).v, Take(c.Data, Len(c.Data) - 1))

\* a scenario: the packages in use, the buffers their callers hold, the records
\* offered for validation, the outcomes of the hash provider's lookup, and the
\* names and versions asked of InitFromFS
Scenario(name, pkgs, bufs, ccds, hashes) ==
    [name |-> name, pkgs |-> pkgs, bufs |-> bufs, ccds |-> ccds, hashes |-> hashes,
     field |-> "", tampered |-> <<>>, ids |-> Identities]

\* the scenario of a registered buffer and one that differs from it in field
Tampering(name, pkgs, base, tampered, field) ==
    [Scenario(name, pkgs, {base, tampered}, Registered({base}), {TRUE})
        EXCEPT !.field = field, !.tampered = tampered]

\* undecodable as a deployment spec and as an envelope: a tag without a length
Malformed == <<10>>

\* two installers of one identity, with the same and with different code
InstallScenarios ==
    {Scenario("install", {"u1", "u2"}, bufs, Registered(bufs), {TRUE}) :
        bufs \in {{MarshalDepSpec(BaseDepSpec),
                   MarshalDepSpec(WithCode(BaseDepSpec, <<3>>))}}}
    \cup {Scenario("install-signed", {"s1", "s2"}, bufs, Registered(bufs), {TRUE}) :
            bufs \in {{SignedBuf(BaseSigned),
                       SignedBuf([BaseSigned EXCEPT !.policy = Bytes(<<9>>)])}}}

\* one package, loaded again and again from good and bad bytes
ReinitScenarios ==
    {Scenario("reinit", {"u1"}, bufs, Registered(bufs), BOOLEAN) :
        bufs \in {{MarshalDepSpec(BaseDepSpec), Malformed}}}
    \cup {Scenario("reinit-signed", {"s1"}, bufs, Registered(bufs), BOOLEAN) :
            bufs \in {{SignedBuf(BaseSigned), Malformed}}}

\* a second deployment spec, of another identity
OtherDepSpec == DepSpec(ChaincodeSpec(ChaincodeID(NameB, Version2)), <<3>>)

DepSpecs == {BaseDepSpec, OtherDepSpec}

\* the buffer a package of p's type is built from for the deployment spec cds
BufOf(p, cds) ==
    IF p \in Signed THEN SignedBuf([BaseSigned EXCEPT !.cdsBytes = MarshalDepSpec(cds)])
    ELSE MarshalDepSpec(cds)

\* the records offered in place of those registered for the running example in
\* either profile
OfferedRecords ==
    UNION {Offered(c) : c \in Registered({BufOf("u1", BaseDepSpec),
                                          BufOf("s1", BaseDepSpec)})}

\* one package, and the registered records in every offered form
ValidateScenarios ==
    {Scenario(IF p \in Signed THEN "validate-signed" ELSE "validate", {p},
              {BufOf(p, cds) : cds \in DepSpecs},
              OfferedRecords \cup Registered({BufOf(p, cds) : cds \in DepSpecs}),
              {TRUE}) : p \in {"u1", "s1"}}

\* signed inputs with an absent or an empty instantiation policy, around a
\* deployment spec that decodes and names its chaincode
NoPolicyInputs ==
    {[BaseSigned EXCEPT !.policy = NilBytes],
     [BaseSigned EXCEPT !.policy = Bytes(<<>>)],
     [BaseSigned EXCEPT !.policy = NilBytes, !.endorsements = <<>>]}

NoPolicyBufs == {SignedBuf(x) : x \in NoPolicyInputs}

\* signed specs with and without an instantiation policy; without one, also
\* around a deployment spec with no chaincode spec and around an undecodable
\* one; and a signed spec in an envelope of another type
PolicyScenarios ==
    {Scenario("policy", {"s1"}, bufs, Registered(bufs), {TRUE}) :
        bufs \in {NoPolicyBufs
                    \cup {SignedBuf(BaseSigned),
                          SignedBuf([BaseSigned EXCEPT
                                        !.policy = NilBytes,
                                        !.cdsBytes = MarshalDepSpec(
                                            DepSpec(NilChaincodeSpec, <<1, 2>>))]),
                          SignedBuf([BaseSigned EXCEPT !.policy = NilBytes,
                                                       !.cdsBytes = Malformed]),
                          SignedBuf([BaseSigned EXCEPT !.typ = 3])}}}

\* the positions <<i, j>> of the bytes of the endorser identities of x
EndorserBytes(x) ==
    {ij \in (1..Len(x.endorsements)) \X (1..MaxEndorserLen) :
        ij[2] <= Len(x.endorsements[ij[1]].Endorser)}

\* the signed inputs one byte away from x, by the field changed
TamperedSigned(x) ==
    {[field |-> t.field, x |-> [x EXCEPT !.cdsBytes = MarshalDepSpec(t.cds)]] :
        t \in TamperedDepSpecs(UnmarshalDepSpec(x.cdsBytes).v)}
    \cup {[field |-> "instantiationPolicy", x |-> [x EXCEPT !.policy = Bytes(q)]] :
            q \in Flips(x.policy.b)}
    \cup {[field |-> "endorser",
           x |-> [x EXCEPT !.endorsements[i].Endorser = FlipByte(@, j)]] :
            <<i, j>> \in EndorserBytes(x)}

\* a registered package and the same package with one byte changed
TamperScenarios ==
    {Tampering("tamper", {"u1"}, MarshalDepSpec(BaseDepSpec), MarshalDepSpec(t.cds),
               t.field) : t \in TamperedDepSpecs(BaseDepSpec)}
    \cup {Tampering("tamper-signed", {"s1"}, SignedBuf(BaseSigned), SignedBuf(t.x),
                     t.field) : t \in TamperedSigned(BaseSigned)}

\* deployment specs that name no chaincode: the empty buffer, which decodes to
\* a spec with no chaincode spec, and a chaincode spec with no chaincode id
NamelessBufs ==
    {<<>>, MarshalDepSpec(DepSpec(ChaincodeSpec(NilChaincodeID), <<1, 2>>))}

\* one unsigned package, loaded from the running example and from nameless specs
NamelessScenarios ==
    {Scenario("nameless", {"u1"}, bufs, Registered(bufs), {TRUE}) :
        bufs \in {NamelessBufs \cup {MarshalDepSpec(BaseDepSpec)}}}

\* two identities with one dot between them: "a.b" "c" and "a" "b.c"
DottedIds == {<<<<97, Dot, 98>>, <<99>>>>, <<<<97>>, <<98, Dot, 99>>>>}

\* the deployment spec of identity id, its code telling it from the others
DottedDepSpec(id) == DepSpec(ChaincodeSpec(ChaincodeID(id[1], id[2])), <<Len(id[1])>>)

\* one installer of packages whose names and versions hold dots
CollideScenarios ==
    {[Scenario("collide", {"u1"}, bufs, Registered(bufs), {TRUE})
        EXCEPT !.ids = DottedIds] :
        bufs \in {{MarshalDepSpec(DottedDepSpec(id)) : id \in DottedIds}}}

Scenarios ==
    InstallScenarios \cup ReinitScenarios \cup ValidateScenarios \cup PolicyScenarios
        \cup TamperScenarios \cup CollideScenarios \cup NamelessScenarios

RECURSIVE SetToSeq(_)
SetToSeq(S) ==
    IF S = {} THEN <<>>
    ELSE LET x == CHOOSE y \in S : TRUE IN <<x>> \o SetToSeq(S \ {x})

\* the scenarios, numbered; a run's state holds the number of its scenario
ScenarioList == SetToSeq(Scenarios)

Scen(i) == ScenarioList[i]

----------------------------------------------------------------------------
(* The state machine *)

NoCall ==
    [op |-> "none", p |-> "none", err |-> OK, buf |-> NilBytes, name |-> <<>>,
     version |-> <<>>, ccdata |-> NilChaincodeData, depSpec |-> NilDepSpec]

NoFiles == [path \in {} |-> <<>>]

\* the numbers of the scenarios called by one of names
Numbers(names) == {i \in 1..Len(ScenarioList) : Scen(i).name \in names}

\* nothing loaded or stored yet, in one of the scenarios of nums, and for the
\* digest function one of inputs
InitWith(nums, inputs) ==
    /\ scen \in nums
    /\ pkg = [p \in Pkgs |-> EmptyPkg]
    /\ store = NoFiles
    /\ pc = [p \in Pkgs |-> "idle"]
    /\ last = NoCall
    /\ issued = [p \in Pkgs |-> NilChaincodeData]
    /\ lastInit = [p \in Pkgs |-> "none"]
    /\ okPuts = <<>>
    /\ intent = NoFiles
    /\ dIn \in inputs
    /\ dOut = <<>>

InitIn(nums) == InitWith(nums, {<<>>})

\* a panic ends the process
Running == last.err # "Panic"

\* how an Init* call that ended with err leaves the record of p's inits
InitOutcome(prev, err) ==
    IF err = OK THEN "ok"
    ELSE IF prev \in {"ok", "refailed"} THEN "refailed"
    ELSE "none"

InitFromBuffer(p, buf, hashOK) ==
    /\ Running
    /\ pc[p] = "idle"
    /\ LET r == DoInitFromBuffer(p, pkg[p], buf, hashOK)
       IN  /\ pkg' = [pkg EXCEPT ![p] = r.ccpack]
           /\ last' = [NoCall EXCEPT !.op = "InitFromBuffer", !.p = p, !.err = r.err,
                                     !.buf = buf, !.ccdata = r.ccd]
           /\ issued' = [issued EXCEPT ![p] = r.ccd]
           /\ lastInit' = [lastInit EXCEPT ![p] = InitOutcome(@, r.err)]
    /\ UNCHANGED <<store, pc, okPuts, intent, scen, dIn, dOut>>

InitFromFS(p, ccname, ccversion, hashOK) ==
    /\ Running
    /\ pc[p] = "idle"
    /\ LET r == DoInitFromFS(p, pkg[p], store, ccname, ccversion, hashOK)
       IN  /\ pkg' = [pkg EXCEPT ![p] = r.ccpack]
           /\ last' = [NoCall EXCEPT !.op = "InitFromFS", !.p = p, !.err = r.err,
                                     !.name = ccname, !.version = ccversion,
                                     !.buf = r.buf, !.depSpec = r.depSpec]
           /\ issued' = [issued EXCEPT ![p] = NilChaincodeData]
           /\ lastInit' = [lastInit EXCEPT ![p] = InitOutcome(@, r.err)]
    /\ UNCHANGED <<store, pc, okPuts, intent, scen, dIn, dOut>>

\* a ValidateCC that clears the package it refuses
ValidateCC_clearing(p, ccdata) ==
    /\ Running
    /\ pc[p] = "idle"
    /\ LET r == DoValidateCC(p, pkg[p], ccdata)
       IN  /\ last' = [NoCall EXCEPT !.op = "ValidateCC", !.p = p, !.err = r.err,
                                     !.ccdata = ccdata, !.depSpec = r.depSpec]
           /\ pkg' = [pkg EXCEPT ![p] = IF r.err = OK THEN @ ELSE EmptyPkg]
    /\ UNCHANGED <<store, pc, issued, lastInit, okPuts, intent, scen, dIn, dOut>>

ValidateCC(p, ccdata) ==
    /\ Running
    /\ pc[p] = "idle"
    /\ LET r == DoValidateCC(p, pkg[p], ccdata)
       IN  last' = [NoCall EXCEPT !.op = "ValidateCC", !.p = p, !.err = r.err,
                                  !.ccdata = ccdata, !.depSpec = r.depSpec]
    /\ UNCHANGED <<pkg, store, pc, issued, lastInit, okPuts, intent, scen, dIn, dOut>>

PutReturn(p, err) ==
    [NoCall EXCEPT !.op = "PutChaincodeToFS", !.p = p, !.err = err, !.buf = pkg[p].buf]

\* PutChaincodeToFS from its entry to the os.Stat of the path
PutChaincodeToFS_Stat(p) ==
    /\ Running
    /\ pc[p] = "idle"
    /\ LET e == DoPutCheck(p, pkg[p], store)
       IN  IF e = OK
           THEN /\ pc' = [pc EXCEPT ![p] = "write"]
                /\ UNCHANGED last
           ELSE /\ last' = PutReturn(p, e)
                /\ UNCHANGED pc
    /\ UNCHANGED <<pkg, store, issued, lastInit, okPuts, intent, scen, dIn, dOut>>

\* ioutil.WriteFile opens the path with O_WRONLY|O_CREATE|O_TRUNC
PutChaincodeToFS_Open(p, ioOK) ==
    /\ Running
    /\ pc[p] = "write"
    /\ IF ioOK
       THEN /\ store' = (PutPath(pkg[p]) :> <<>>) @@ store
            /\ intent' = (PutPath(pkg[p]) :> pkg[p].buf.b) @@ intent
            /\ pc' = [pc EXCEPT ![p] = "opened"]
            /\ UNCHANGED last
       ELSE /\ last' = PutReturn(p, "StorageError")
            /\ pc' = [pc EXCEPT ![p] = "idle"]
            /\ UNCHANGED <<store, intent>>
    /\ UNCHANGED <<pkg, issued, lastInit, okPuts, scen, dIn, dOut>>

\* the byte counts a write of b may end at: all of b, or an error after a prefix
WriteLens(b) ==
    {Len(b)} \cup {n \in 0..MaxPartial : n < Len(b)}

\* ioutil.WriteFile writes from offset 0 and closes; n bytes reach the file
PutChaincodeToFS_Write(p, n) ==
    /\ Running
    /\ pc[p] = "opened"
    /\ store' = [store EXCEPT ![PutPath(pkg[p])] = Take(pkg[p].buf.b, n) \o Drop(@, n)]
    /\ pc' = [pc EXCEPT ![p] = "idle"]
    /\ IF n = Len(pkg[p].buf.b)
       THEN /\ last' = PutReturn(p, OK)
            /\ okPuts' = Append(okPuts, [path |-> PutPath(pkg[p]), buf |-> pkg[p].buf.b])
       ELSE /\ last' = PutReturn(p, "StorageError")
            /\ UNCHANGED okPuts
    /\ UNCHANGED <<pkg, issued, lastInit, intent, scen, dIn, dOut>>

\* the calls a caller may make on package p
Call(p) ==
    \/ \E b \in Scen(scen).bufs, hashOK \in Scen(scen).hashes :
            InitFromBuffer(p, Bytes(b), hashOK)
    \/ \E id \in Scen(scen).ids, hashOK \in Scen(scen).hashes :
            InitFromFS(p, id[1], id[2], hashOK)
    \/ \E c \in Scen(scen).ccds : ValidateCC(p, c)
    \/ PutChaincodeToFS_Stat(p)
    \/ \E ioOK \in BOOLEAN : PutChaincodeToFS_Open(p, ioOK)
    \/ \E n \in WriteLens(pkg[p].buf.b) : PutChaincodeToFS_Write(p, n)

Next == \E p \in Scen(scen).pkgs : Call(p)

\* callers that never overlap two calls: a call in progress runs to its return
NoOtherCall(p) == \A q \in Pkgs \ {p} : pc[q] = "idle"

NextSeq == \E p \in Scen(scen).pkgs : NoOtherCall(p) /\ Call(p)

InitInstall == InitIn(Numbers({"install", "install-signed"}))

\* two installers, one call at a time
SpecSeq == InitInstall /\ [][NextSeq]_vars

\* two installers, their calls interleaved
SpecInstall == InitInstall /\ [][Next]_vars

\* two installers of the unsigned type, their calls interleaved
SpecRace == InitIn(Numbers({"install"})) /\ [][Next]_vars

InitReinit == InitIn(Numbers({"reinit", "reinit-signed"}))

SpecReinit == InitReinit /\ [][Next]_vars

InitValidate == InitIn(Numbers({"validate", "validate-signed"}))

SpecValidate == InitValidate /\ [][Next]_vars

InitPolicy == InitIn(Numbers({"policy"}))

SpecPolicy == InitPolicy /\ [][Next]_vars

InitCollide == InitIn(Numbers({"collide"}))

SpecCollide == InitCollide /\ [][Next]_vars

InitNameless == InitIn(Numbers({"policy", "nameless"}))

SpecNameless == InitNameless /\ [][Next]_vars

InitTamper == InitIn(Numbers({"tamper", "tamper-signed"}))

SpecTamper == InitTamper /\ [][Next]_vars

----------------------------------------------------------------------------
(* Validation *)

\* every field of package p is populated
Populated(p) ==
    /\ ~pkg[p].buf.nil
    /\ ~pkg[p].depSpec.nil
    /\ ~pkg[p].data.nil
    /\ p \in Signed => ~pkg[p].sDepSpec.nil /\ ~pkg[p].env.nil

\* every field of package p is empty
Cleared(p) ==
    /\ pkg[p].buf.nil
    /\ pkg[p].depSpec.nil
    /\ pkg[p].data.nil
    /\ pkg[p].sDepSpec.nil
    /\ pkg[p].env.nil

NameOf(p) == pkg[p].depSpec.ChaincodeSpec.ChaincodeId.Name

VersionOf(p) == pkg[p].depSpec.ChaincodeSpec.ChaincodeId.Version

\* ccdata.Data read as a digest record of p's profile
DataFor(p, ccdata) ==
    IF p \in Signed THEN UnmarshalSignedCDSData(ccdata.Data)
    ELSE UnmarshalCDSData(ccdata.Data)

\* the last call was op on p and returned err
Returned(op, p, err) == last.op = op /\ last.p = p /\ last.err = err

\* C1: ValidateCC returns success, and with it the package's deployment spec,
\* only on a package with every field populated, for a ChaincodeData of the
\* package's own name and version whose data decodes to a digest record equal
\* to the package's own in the code hash, the metadata hash and, for a signed
\* package, the signature hash.
C1_ValidateSound ==
    \A p \in Pkgs :
        Returned("ValidateCC", p, OK) =>
            /\ Populated(p)
            /\ last.ccdata.Name = NameOf(p)
            /\ last.ccdata.Version = VersionOf(p)
            /\ DataFor(p, last.ccdata).ok
            /\ DataFor(p, last.ccdata).v.CodeHash = pkg[p].data.CodeHash
            /\ DataFor(p, last.ccdata).v.MetaDataHash = pkg[p].data.MetaDataHash
            /\ p \in Signed =>
                DataFor(p, last.ccdata).v.SignatureHash = pkg[p].data.SignatureHash
            /\ last.depSpec = pkg[p].depSpec
            /\ ~last.depSpec.nil

\* a signed package has accepted a ChaincodeData
C1_Witness == \E p \in Signed : Returned("ValidateCC", p, OK)

\* the deployment spec that p's buffer was built from
Original(p) == {cds \in DepSpecs : pkg[p].buf = Bytes(BufOf(p, cds))}

\* C3: ValidateCC with the ChaincodeData that the package's successful
\* InitFromBuffer returned succeeds and returns the deployment spec the buffer
\* was built from, and that ChaincodeData carries the name and the version of
\* that deployment spec.
C3_RoundTrip ==
    \A p \in Pkgs :
        (~issued[p].nil /\ last.op = "ValidateCC" /\ last.p = p
            /\ last.ccdata = issued[p]) =>
            /\ last.err = OK
            /\ Original(p) = {last.depSpec}
            /\ issued[p].Name = last.depSpec.ChaincodeSpec.ChaincodeId.Name
            /\ issued[p].Version = last.depSpec.ChaincodeSpec.ChaincodeId.Version

\* a signed package has validated the ChaincodeData its InitFromBuffer returned
C3_Witness ==
    \E p \in Signed :
        /\ ~issued[p].nil
        /\ Returned("ValidateCC", p, OK)
        /\ last.ccdata = issued[p]
        /\ last.depSpec = OtherDepSpec

\* C9: on a package with every field populated, ValidateCC with a ChaincodeData
\* of another name or version returns IdentityMismatch, whatever its data is.
C9_IdentityFirst ==
    \A p \in Pkgs :
        (last.op = "ValidateCC" /\ last.p = p /\ Populated(p)
            /\ (last.ccdata.Name # NameOf(p) \/ last.ccdata.Version # VersionOf(p))) =>
            last.err = "IdentityMismatch"

\* ValidateCC has returned IdentityMismatch for a ChaincodeData of another
\* version whose data does not decode
C9_Witness ==
    \E p \in Unsigned :
        /\ Populated(p)
        /\ Returned("ValidateCC", p, "IdentityMismatch")
        /\ last.ccdata.Version # VersionOf(p)
        /\ ~DataFor(p, last.ccdata).ok

\* a package of the other profile than p's
OtherProfile(p) == IF p \in Signed THEN "u1" ELSE "s1"

\* the records registered for packages of the other profile than p's
ForeignRecords(p) ==
    {DoInitFromBuffer(OtherProfile(p), EmptyPkg,
                      Bytes(BufOf(OtherProfile(p), cds)), TRUE).ccd : cds \in DepSpecs}

\* package p has just been validated against a record of the other profile
\* that carries p's name and version
ForeignValidated(p) ==
    /\ last.op = "ValidateCC"
    /\ last.p = p
    /\ Populated(p)
    /\ last.ccdata \in ForeignRecords(p)
    /\ last.ccdata.Name = NameOf(p)
    /\ last.ccdata.Version = VersionOf(p)

\* C16, as claimed: ValidateCC of an unsigned package against the serialized
\* digest record of a signed package fails with DecodeError, and ValidateCC of
\* a signed package against the serialized record of an unsigned package fails.
C16_ProfileMatch ==
    \A p \in Pkgs :
        ForeignValidated(p) =>
            IF p \in Signed THEN last.err # OK ELSE last.err = "DecodeError"

----------------------------------------------------------------------------
(* Installation *)

Installed(path) == \E i \in 1..Len(okPuts) : okPuts[i].path = path

\* C2: with one call at a time, at most one PutChaincodeToFS succeeds for a
\* name and version, a PutChaincodeToFS for a name and version already
\* installed returns AlreadyExists, and the stored bytes stay those of the
\* call that succeeded.
C2_WriteOnce ==
    /\ \A i, j \in 1..Len(okPuts) : okPuts[i].path = okPuts[j].path => i = j
    /\ \A i \in 1..Len(okPuts) :
        /\ okPuts[i].path \in DOMAIN store
        /\ store[okPuts[i].path] = okPuts[i].buf
    /\ \A p \in Pkgs :
        (last.op = "PutChaincodeToFS" /\ last.p = p /\ Populated(p)
            /\ Installed(PutPath(pkg[p]))) =>
            last.err \in {OK, "AlreadyExists"}

\* a second package holding the installed bytes has been refused
C2_Witness ==
    \E p \in Pkgs :
        /\ Returned("PutChaincodeToFS", p, "AlreadyExists")
        /\ Len(okPuts) = 1
        /\ okPuts[1].path = PutPath(pkg[p])
        /\ okPuts[1].buf = pkg[p].buf.b

\* C12, as claimed: however the calls of two installers interleave, at most one
\* PutChaincodeToFS returns nil for a name and version, and the bytes it stored
\* are not overwritten by the other.
C12_OneInstaller ==
    /\ \A i, j \in 1..Len(okPuts) : okPuts[i].path = okPuts[j].path => i = j
    /\ \A i \in 1..Len(okPuts) : store[okPuts[i].path] = okPuts[i].buf

\* the bytes that successful installs stored at path
InstalledBufs(path) ==
    {okPuts[i].buf : i \in {j \in 1..Len(okPuts) : okPuts[j].path = path}}

\* C15, as claimed: InitFromFS for a name and version that a PutChaincodeToFS
\* installed with success succeeds, returns the installed bytes and their
\* deployment spec, and leaves the package as InitFromBuffer on those bytes
\* leaves it; InitFromFS for a name and version with no file returns NotFound.
C15_InstallReload ==
    \A p \in Pkgs :
        (last.op = "InitFromFS" /\ last.p = p) =>
            /\ \A b \in InstalledBufs(Path(last.name, last.version)) :
                    /\ last.err = OK
                    /\ last.buf = Bytes(b)
                    /\ last.depSpec
                        = DoInitFromBuffer(p, EmptyPkg, Bytes(b), TRUE).ccpack.depSpec
                    /\ pkg[p] = DoInitFromBuffer(p, EmptyPkg, Bytes(b), TRUE).ccpack
            /\ Path(last.name, last.version) \notin DOMAIN store
                    => last.err = "NotFound"

\* the name and version of the deployment spec that buffer b holds
IdentityIn(p, b) ==
    <<DoInitFromBuffer(p, EmptyPkg, Bytes(b), TRUE).ccpack.depSpec.ChaincodeSpec.ChaincodeId.Name,
      DoInitFromBuffer(p, EmptyPkg, Bytes(b), TRUE).ccpack.depSpec.ChaincodeSpec.ChaincodeId.Version>>

\* C17, as claimed: a PutChaincodeToFS refused with AlreadyExists finds at its
\* path only installs of its own name and version, and an InitFromFS that
\* succeeds yields a deployment spec of the name and version asked for.
C17_InjectiveKeys ==
    \A p \in Pkgs :
        /\ Returned("PutChaincodeToFS", p, "AlreadyExists") =>
                \A b \in InstalledBufs(PutPath(pkg[p])) :
                    IdentityIn(p, b) = <<NameOf(p), VersionOf(p)>>
        /\ Returned("InitFromFS", p, OK) =>
                <<NameOf(p), VersionOf(p)>> = <<last.name, last.version>>

\* C7, as claimed: every entry of the store holds all the bytes of the package
\* written to it, and a PutChaincodeToFS that returned StorageError has left
\* no entry.
C7_AtomicPublish ==
    /\ \A path \in DOMAIN store : store[path] = intent[path]
    /\ \A p \in Pkgs :
        Returned("PutChaincodeToFS", p, "StorageError") =>
            PutPath(pkg[p]) \notin DOMAIN store

----------------------------------------------------------------------------
(* Initialization *)

\* C5, as claimed: between calls a package is fully cleared or fully populated.
C5_AllOrNothing == \A p \in Pkgs : pc[p] = "idle" => Cleared(p) \/ Populated(p)

\* C6: once an Init* call has failed on a package that was initialized, and
\* until one succeeds, GetDepSpec returns nil and ValidateCC and
\* PutChaincodeToFS return Uninitialized.
C6_ReinitSafe ==
    \A p \in Pkgs :
        lastInit[p] = "refailed" =>
            /\ GetDepSpec(pkg[p]).nil
            /\ (last.op \in {"ValidateCC", "PutChaincodeToFS"} /\ last.p = p) =>
                last.err = "Uninitialized" /\ last.depSpec.nil

\* PutChaincodeToFS has returned Uninitialized on a package whose re-init failed
C6_Witness ==
    \E p \in Pkgs :
        /\ lastInit[p] = "refailed"
        /\ Returned("PutChaincodeToFS", p, "Uninitialized")

\* C8, as claimed: InitFromBuffer on a signed package given a spec with an
\* absent or empty instantiation policy returns PolicyMissing and leaves the
\* package cleared.
C8_PolicyMissing ==
    \A p \in Signed :
        (last.op = "InitFromBuffer" /\ last.p = p /\ last.buf.b \in NoPolicyBufs) =>
            last.err = "PolicyMissing" /\ Cleared(p)

\* C18, as claimed: InitFromBuffer returns success or an error for every
\* buffer, and never ends in a panic.
C18_NoPanic == last.op = "InitFromBuffer" => last.err # "Panic"

\* C11: on a package that was never initialized, or whose last Init* call
\* failed, ValidateCC and PutChaincodeToFS return Uninitialized and
\* PutChaincodeToFS does not go on to write; and the store has an entry only
\* once some package was initialized.
C11_InitBeforeUse ==
    /\ \A p \in Pkgs :
        lastInit[p] # "ok" =>
            /\ pc[p] = "idle"
            /\ (last.op \in {"ValidateCC", "PutChaincodeToFS"} /\ last.p = p) =>
                last.err = "Uninitialized"
    /\ DOMAIN store # {} => \E p \in Pkgs : lastInit[p] \in {"ok", "refailed"}

\* PutChaincodeToFS has returned Uninitialized on a package never initialized,
\* and the store is empty
C11_Witness ==
    \E p \in Pkgs :
        /\ lastInit[p] = "none"
        /\ Returned("PutChaincodeToFS", p, "Uninitialized")
        /\ DOMAIN store = {}

----------------------------------------------------------------------------
(* Frame *)

\* this step is the return of a call of op
Returns(op) == last' # last /\ last'.op = op

\* this step belongs to a PutChaincodeToFS call on p
PutStep(p) == pc'[p] # pc[p] \/ (Returns("PutChaincodeToFS") /\ last'.p = p)

\* C14: a ValidateCC call, whatever it returns, changes no package field and
\* no store entry; no step of a PutChaincodeToFS call changes a field of its
\* package; and a PutChaincodeToFS that returns Uninitialized or AlreadyExists
\* changes no store entry.
C14_Frame ==
    [][/\ Returns("ValidateCC") => pkg' = pkg /\ store' = store
       /\ \A p \in Pkgs : PutStep(p) => pkg'[p] = pkg[p]
       /\ (Returns("PutChaincodeToFS") /\ last'.err \in {"Uninitialized", "AlreadyExists"})
            => store' = store]_vars

\* a populated package has been refused by ValidateCC after an install, and
\* is still populated
C14_Witness ==
    \E p \in Pkgs :
        /\ Returned("ValidateCC", p, "DigestMismatch")
        /\ Populated(p)
        /\ DOMAIN store # {}

----------------------------------------------------------------------------
(* Tampering *)

\* the hash of a digest record that takes in field
DigestField(d, field) ==
    IF field = "codePackage" THEN d.CodeHash
    ELSE IF field \in {"name", "version"} THEN d.MetaDataHash
    ELSE d.SignatureHash

\* package p holds the tampered buffer and has just been validated against
\* the registered record
TamperedValidated(p) ==
    /\ last.op = "ValidateCC"
    /\ last.p = p
    /\ last.ccdata \in Scen(scen).ccds
    /\ pkg[p].buf = Bytes(Scen(scen).tampered)

\* C4, as claimed: a package built from a spec one byte away from the
\* registered one fails validation against the registered record with
\* DigestMismatch.
C4_TamperDigestMismatch ==
    \A p \in Pkgs : TamperedValidated(p) => last.err = "DigestMismatch"

\* C4: a package built from a spec one byte away from the registered one
\* differs from the registered record in the hash that takes in the changed
\* field, and its validation against the registered record fails: with
\* IdentityMismatch when the byte is in the name or the version, with
\* DigestMismatch when it is in the code package, the instantiation policy or
\* an endorser.
C4_TamperDetected ==
    \A p \in Pkgs :
        TamperedValidated(p) =>
            /\ DigestField(pkg[p].data, Scen(scen).field)
                # DigestField(DataFor(p, last.ccdata).v, Scen(scen).field)
            /\ last.err = IF Scen(scen).field \in {"name", "version"}
                          THEN "IdentityMismatch" ELSE "DigestMismatch"

\* a signed package with one byte of an endorser changed has been refused
C4_Witness ==
    \E p \in Signed :
        /\ TamperedValidated(p)
        /\ Scen(scen).field = "endorser"
        /\ last.err = "DigestMismatch"

\* C13, as claimed: the code hash of a package's digest record is the digest
\* of its code package, and the metadata hash is the digest of its name
\* followed by its version.
C13_DigestAlgorithm ==
    \A p \in Pkgs :
        Populated(p) =>
            /\ pkg[p].data.CodeHash = H(pkg[p].depSpec.CodePackage)
            /\ pkg[p].data.MetaDataHash = H(NameOf(p) \o VersionOf(p))

----------------------------------------------------------------------------
(* The signed digest as a function of the owner endorsements *)

EndorserByte == {5, 6}

\* endorser identities of 1..MaxEndorserLen bytes
EndorserIds == UNION {[1..n -> EndorserByte] : n \in 1..MaxEndorserLen}

\* endorser lists of up to MaxEndorsers identities
EndorserLists == UNION {[1..n -> EndorserIds] : n \in 0..MaxEndorsers}

\* a list of endorsers and an ordering of it
DigestInputs ==
    UNION {{[endorsers |-> es, order |-> q] : q \in Permutations(1..Len(es))} :
            es \in EndorserLists}

Reordered(es, q) == [i \in 1..Len(es) |-> es[q[i]]]

\* the signed spec of the running example with the owner endorsers es
SignedSpecOf(es) ==
    SDepSpec(Bytes(BaseSigned.cdsBytes), BaseSigned.policy,
             [i \in 1..Len(es) |-> Endorsement(es[i], <<>>)])

InitDigest == InitWith({1}, DigestInputs)

\* getCDSData on the signed spec as given and on the same spec reordered
ComputeDigests ==
    /\ dOut = <<>>
    /\ dOut' = <<SignedCDSPackage_getCDSData(SignedSpecOf(dIn.endorsers), TRUE),
                 SignedCDSPackage_getCDSData(
                     SignedSpecOf(Reordered(dIn.endorsers, dIn.order)), TRUE)>>
    /\ UNCHANGED <<pkg, store, pc, last, issued, lastInit, okPuts, intent, scen, dIn>>

NextDigest == ComputeDigests

SpecDigest == InitDigest /\ [][NextDigest]_vars

\* the signature hashes that ComputeDigests found
SignatureHashes == <<dOut[1].data.SignatureHash, dOut[2].data.SignatureHash>>

\* the endorser identities of es, one after the other
Concatenated(es) == Flatten(es)

\* C10, as claimed: two orderings of the same endorsements that differ give
\* different signature hashes.
C10_OrderSensitive ==
    (dOut # <<>> /\ Reordered(dIn.endorsers, dIn.order) # dIn.endorsers) =>
        SignatureHashes[1] # SignatureHashes[2]

\* C10: two orderings of the same endorsements give different signature
\* hashes exactly when the endorser identities, one after the other, give
\* different byte strings; so they do whenever the orderings differ and the
\* identities are all of one length.
C10_OrderSensitiveUpToConcatenation ==
    dOut # <<>> =>
        /\ dOut[1].err = OK /\ dOut[2].err = OK
        /\ SignatureHashes[1] # SignatureHashes[2]
            <=> Concatenated(dIn.endorsers)
                    # Concatenated(Reordered(dIn.endorsers, dIn.order))
        /\ (/\ Reordered(dIn.endorsers, dIn.order) # dIn.endorsers
            /\ \A i, j \in 1..Len(dIn.endorsers) :
                Len(dIn.endorsers[i]) = Len(dIn.endorsers[j])) =>
            SignatureHashes[1] # SignatureHashes[2]

\* two endorsers of one length, exchanged, have given another signature hash
C10_Witness ==
    /\ dOut # <<>>
    /\ Len(dIn.endorsers) = 2
    /\ Len(dIn.endorsers[1]) = Len(dIn.endorsers[2])
    /\ Reordered(dIn.endorsers, dIn.order) # dIn.endorsers
    /\ SignatureHashes[1] # SignatureHashes[2]

====
